---- MODULE Spec2Model ----
(***************************************************************************)
(* The conversation state machine of src/App.tsx: the component state of   *)
(* App, the persona effect with its welcome animation timer, and the send  *)
(* handler with its two response strategies.  Every action is one task of  *)
(* the browser's event loop: an event handler together with the state      *)
(* updates it queues, or the continuation of a send after one await.       *)
(*                                                                         *)
(* Text is a sequence of tokens (strings), so that concatenation, the      *)
(* cursor glyph and the placeholders keep their meaning.                   *)
(*                                                                         *)
(* History that the code does not hold, kept to state the properties:      *)
(* the field `turn` of a transcript entry (the send that wrote it, 0 for   *)
(* the welcome animation), the fields `received` and `duringAnimation` of  *)
(* a send, and the counter `selections` that numbers sessions and timers.  *)
(***************************************************************************)
EXTENDS Integers, Sequences, FiniteSets, TLC

VARIABLES chat, messages, input, isLoading, error, currentModel,
          isDeepSearch, attachedFile, welcomeAnimationIntervalRef,
          timers, sends, selections,
          download

vars == <<chat, messages, input, isLoading, error, currentModel,
          isDeepSearch, attachedFile, welcomeAnimationIntervalRef,
          timers, sends, selections, download>>

----------------------------------------------------------------------------
(* Bounds of the model *)

MaxSends == 2

MaxChunks == 2

MaxSwitches == 1

WelcomeLen == 1

\* the grounding chunks of a response, at most
MaxGrounding == 3

\* the entries of an exported transcript, at most
MaxEntries == 2

----------------------------------------------------------------------------
(* Values *)

Null == "null"

NoTimer == 0

NoChat == [instruction |-> Null, id |-> 0]

\* the keys of AI_MODELS; the code treats every persona alike, and two of the
\* four are kept
AI_MODELS == {"ecoiuris", "legal_pro"}

WelcomeChars == <<"w1", "w2", "w3", "w4", "w5", "w6">>

fullWelcomeMessageText == SubSeq(WelcomeChars, 1, WelcomeLen)

Cursor == "█"

Placeholder == <<"...">>

DeepPlaceholder == <<"Performing deep search...">>

Inputs == {<<>>, <<" ">>, <<"q">>}

Files == {"f.pdf"}

ChunkChars == <<"c1", "c2", "c3", "c4", "c5">>

\* the text of the k-th chunk a stream yields
ChunkText(k) == <<ChunkChars[k]>>

InitError == "Failed to initialize AI Chat"

SendError == "Error from AI"

RECURSIVE Trim(_)
Trim(s) ==
    IF s = <<>> THEN s
    ELSE IF Head(s) = " " THEN Trim(Tail(s))
    ELSE IF s[Len(s)] = " " THEN Trim(SubSeq(s, 1, Len(s) - 1))
    ELSE s

Message(role, text, turn) == [role |-> role, text |-> text, turn |-> turn]

UserText(currentInput, file) ==
    currentInput \o (IF file # Null
                     THEN <<"\n\n[File Attached: ", file, "]">>
                     ELSE <<>>)

\* a rollback that also drops the entry before the last one
SliceLast_DropsTwo(prev) ==
    IF Len(prev) < 2 THEN <<>> ELSE SubSeq(prev, 1, Len(prev) - 2)

SliceLast(prev) ==
    IF prev = <<>> THEN prev ELSE SubSeq(prev, 1, Len(prev) - 1)

SetLast(prev, entry) ==
    IF prev = <<>> THEN prev
    ELSE [prev EXCEPT ![Len(prev)] = entry]

----------------------------------------------------------------------------
(* Sends *)

SendIds == 1..MaxSends

IdleSend ==
    [pc |-> "idle", currentInput |-> <<>>, attachedFile |-> Null,
     isDeepSearch |-> FALSE, chat |-> NoChat, modelResponse |-> <<>>,
     received |-> <<>>, duringAnimation |-> FALSE]

Running == {"file", "open", "streaming", "deep", "hung"}

\* a send that has ended: its closure is gone; the session it was sent in and
\* whether it was accepted during the animation are kept as history
Settle(s, outcome) ==
    [sends EXCEPT ![s].pc = outcome,
                  ![s].currentInput = <<>>,
                  ![s].attachedFile = Null,
                  ![s].isDeepSearch = FALSE,
                  ![s].modelResponse = <<>>,
                  ![s].received = <<>>]

----------------------------------------------------------------------------
Init ==
    /\ chat = NoChat
    /\ messages = <<>>
    /\ input = <<>>
    /\ isLoading = FALSE
    /\ error = Null
    /\ currentModel = "ecoiuris"
    /\ isDeepSearch = FALSE
    /\ attachedFile = Null
    /\ welcomeAnimationIntervalRef = NoTimer
    /\ timers = {}
    /\ sends = [s \in SendIds |-> IdleSend]
    /\ selections = 0
    /\ download = <<>>

----------------------------------------------------------------------------
(* The persona effect and the welcome animation *)

\* clearInterval(welcomeAnimationIntervalRef.current), guarded by the ref
ClearInterval(tm, ref) == {t \in tm : t.id # ref}

\* startChat(AI_MODELS[currentModel].instruction): a fresh session
startChat(key, n) == [instruction |-> key, id |-> n]

\* a cleanup that leaves the interval running
EffectCleanup_KeepsTimer(tm, ref) == tm

\* the cleanup the effect returns, run before the next run of the effect
EffectCleanup(tm, ref) == ClearInterval(tm, ref)

\* the interval animateWelcomeMessage starts: i = 0, animatedText = ''
NewTimer(n) == [id |-> n, i |-> 0, animatedText |-> <<>>]

\* the body of useEffect[currentModel], after the cleanup of the run before
\* left the timers `tm`; n numbers this run of the effect
PersonaEffect(key, tm, n) ==
    \/ /\ chat' = startChat(key, n)
       /\ messages' = <<Message("model", <<>>, 0)>>
       /\ timers' = ClearInterval(tm, welcomeAnimationIntervalRef) \cup {NewTimer(n)}
       /\ welcomeAnimationIntervalRef' = n
       /\ UNCHANGED error
    \/ /\ error' = InitError
       /\ timers' = tm
       /\ UNCHANGED <<chat, messages, welcomeAnimationIntervalRef>>

\* first render: the effect runs for the initial persona
Mount ==
    /\ selections = 0
    /\ selections' = 1
    /\ PersonaEffect(currentModel, timers, 1)
    /\ UNCHANGED <<download, input, isLoading, currentModel, isDeepSearch, attachedFile, sends>>

\* Header's onModelChange: setCurrentModel(key), then cleanup and effect
SelectPersona(key) ==
    /\ selections >= 1
    /\ selections <= MaxSwitches
    /\ key # currentModel
    /\ currentModel' = key
    /\ selections' = selections + 1
    /\ PersonaEffect(key, EffectCleanup(timers, welcomeAnimationIntervalRef),
                     selections + 1)
    /\ UNCHANGED <<download, input, isLoading, isDeepSearch, attachedFile, sends>>

\* the frame a tick of timer t shows while characters are left
GrowingFrame(t) ==
    Message("model", Append(Append(t.animatedText, fullWelcomeMessageText[t.i + 1]), Cursor), 0)

\* the frame of the tick that finds no character left
FinalFrame(t) == Message("model", t.animatedText, 0)

\* one tick of the interval callback of animateWelcomeMessage
Tick(t) ==
    /\ t \in timers
    /\ IF t.i < Len(fullWelcomeMessageText)
       THEN /\ timers' = (timers \ {t}) \cup
                     {[t EXCEPT !.i = t.i + 1,
                                !.animatedText = Append(t.animatedText, fullWelcomeMessageText[t.i + 1])]}
            /\ messages' = <<GrowingFrame(t)>>
       ELSE /\ timers' = ClearInterval(timers, welcomeAnimationIntervalRef)
            /\ messages' = <<FinalFrame(t)>>
    /\ UNCHANGED <<download, chat, input, isLoading, error, currentModel, isDeepSearch,
                   attachedFile, welcomeAnimationIntervalRef, sends, selections>>

----------------------------------------------------------------------------
(* The form controls.  The form exists once the component has rendered,    *)
(* and the effect of the first render runs before any event is handled.    *)
(* The controls are explored while a send is left to submit: the state     *)
(* they set is read by handleSendMessage alone.                            *)

Mounted == selections >= 1

SendsLeft == Mounted /\ \E s \in SendIds : sends[s].pc = "idle"

\* onChange of the chat input, which is disabled while loading or without chat
SetInput(v) ==
    /\ SendsLeft
    /\ ~isLoading
    /\ chat # NoChat
    /\ v # input
    /\ input' = v
    /\ UNCHANGED <<download, chat, messages, isLoading, error, currentModel, isDeepSearch,
                   attachedFile, welcomeAnimationIntervalRef, timers, sends,
                   selections>>

\* onChange of the file input, opened by the Upload button (disabled while loading)
AttachFile(f) ==
    /\ SendsLeft
    /\ ~isLoading
    /\ attachedFile # f
    /\ attachedFile' = f
    /\ UNCHANGED <<download, chat, messages, input, isLoading, error, currentModel,
                   isDeepSearch, welcomeAnimationIntervalRef, timers, sends,
                   selections>>

\* the "Remove file" button, shown while a file is attached and never disabled
RemoveFile ==
    /\ SendsLeft
    /\ attachedFile # Null
    /\ attachedFile' = Null
    /\ UNCHANGED <<download, chat, messages, input, isLoading, error, currentModel,
                   isDeepSearch, welcomeAnimationIntervalRef, timers, sends,
                   selections>>

\* the Deep Search button (disabled while loading)
ToggleDeepSearch ==
    /\ SendsLeft
    /\ ~isLoading
    /\ isDeepSearch' = ~isDeepSearch
    /\ UNCHANGED <<download, chat, messages, input, isLoading, error, currentModel,
                   attachedFile, welcomeAnimationIntervalRef, timers, sends,
                   selections>>

----------------------------------------------------------------------------
(* handleSendMessage *)

\* a gate that asks for text even when a file is attached
Accepted_NeedsText(in, file, loading, ch) ==
    ~(Trim(in) = <<>> \/ loading \/ ch = NoChat)

\* a gate that does not test isLoading
Accepted_NoLoadingTest(in, file, loading, ch) ==
    ~((Trim(in) = <<>> /\ file = Null) \/ ch = NoChat)

\* the early return of handleSendMessage, negated: the submit is accepted
Accepted(in, file, loading, ch) ==
    ~((Trim(in) = <<>> /\ file = Null) \/ loading \/ ch = NoChat)

\* the closure of an accepted send, and where it first suspends
Started(s, pc) ==
    [sends EXCEPT ![s] = [pc |-> pc, currentInput |-> input,
                          attachedFile |-> attachedFile,
                          isDeepSearch |-> isDeepSearch, chat |-> chat,
                          modelResponse |-> <<>>, received |-> <<>>,
                          duringAnimation |-> timers # {}]]

\* an accepted send that appends no placeholder on the deep-search path
Submitted_NoDeepPlaceholder(prev, s) ==
    Append(prev, Message("user", UserText(input, attachedFile), s))

\* the transcript after the synchronous part of an accepted send
Submitted(prev, s) ==
    LET withUser == Append(prev, Message("user", UserText(input, attachedFile), s))
    IN  IF isDeepSearch
        THEN Append(withUser, Message("model", DeepPlaceholder, s))
        ELSE withUser

\* a send that reads its attachment before it looks at the deep-search toggle
FirstAwait_ReadsFileFirst ==
    IF attachedFile # Null THEN "file"
    ELSE IF isDeepSearch THEN "deep"
    ELSE "open"

\* where an accepted send first suspends
FirstAwait ==
    IF isDeepSearch THEN "deep"
    ELSE IF attachedFile # Null THEN "file"
    ELSE "open"

\* the submit handler, up to its first await; s is the next unused send
Submit(s) ==
    /\ Mounted
    /\ sends[s].pc = "idle"
    /\ \A r \in SendIds : r < s => sends[r].pc # "idle"
    /\ IF Accepted(input, attachedFile, isLoading, chat)
       THEN /\ input' = <<>>
            /\ messages' = Submitted(messages, s)
            /\ isLoading' = TRUE
            /\ error' = Null
            /\ sends' = Started(s, FirstAwait)
            /\ UNCHANGED <<download, chat, currentModel, isDeepSearch, attachedFile,
                           welcomeAnimationIntervalRef, timers, selections>>
       ELSE UNCHANGED vars

\* a finally block that keeps the pending attachment
Finally_KeepsAttachment ==
    /\ isLoading' = FALSE
    /\ isDeepSearch' = FALSE
    /\ UNCHANGED attachedFile

\* the finally block of handleSendMessage
Finally ==
    /\ isLoading' = FALSE
    /\ attachedFile' = Null
    /\ isDeepSearch' = FALSE

\* the catch block of handleSendMessage
Catch ==
    /\ error' = SendError
    /\ messages' = SliceLast(messages)

\* a send fails at its current await: catch, then finally
Fail(s) ==
    /\ Catch
    /\ Finally
    /\ sends' = Settle(s, "failed")
    /\ UNCHANGED <<download, chat, input, currentModel, welcomeAnimationIntervalRef,
                   timers, selections>>

----------------------------------------------------------------------------
(* handleStandardChat *)

\* fileToGenerativePart resolves: the read ended with a result
FileRead(s) ==
    /\ sends[s].pc = "file"
    /\ sends' = [sends EXCEPT ![s].pc = "open"]
    /\ UNCHANGED <<download, chat, messages, input, isLoading, error, currentModel,
                   isDeepSearch, attachedFile, welcomeAnimationIntervalRef,
                   timers, selections>>

\* the read ended in an error: onloadend throws on the null result inside the
\* reader's callback, and the promise is never settled
FileReadError(s) ==
    /\ sends[s].pc = "file"
    /\ sends' = [sends EXCEPT ![s].pc = "hung"]
    /\ UNCHANGED <<download, chat, messages, input, isLoading, error, currentModel,
                   isDeepSearch, attachedFile, welcomeAnimationIntervalRef,
                   timers, selections>>

\* a stream opened without appending the placeholder
StreamOpened_NoPlaceholder(prev, s) == prev

\* the transcript once the stream is open
StreamOpened(prev, s) == Append(prev, Message("model", Placeholder, s))

\* chat.sendMessageStream resolves
StreamOpen(s) ==
    /\ sends[s].pc = "open"
    /\ messages' = StreamOpened(messages, s)
    /\ sends' = [sends EXCEPT ![s].pc = "streaming"]
    /\ UNCHANGED <<download, chat, input, isLoading, error, currentModel, isDeepSearch,
                   attachedFile, welcomeAnimationIntervalRef, timers, selections>>

\* chat.sendMessageStream rejects
StreamOpenFail(s) ==
    /\ sends[s].pc = "open"
    /\ Fail(s)

\* an update that appends an entry instead of replacing the last one
ChunkUpdate_Appends(prev, s, modelResponse) ==
    Append(prev, Message("model", modelResponse, s))

\* the transcript after one iteration of the for-await loop
ChunkUpdate(prev, s, modelResponse) ==
    SetLast(prev, Message("model", modelResponse, s))

\* an accumulation that keeps the latest chunk only
Accumulate_LatestOnly(modelResponse, c) == c

\* modelResponse += chunk.text
Accumulate(modelResponse, c) == modelResponse \o c

\* the stream yields a chunk
Chunk(s) ==
    /\ sends[s].pc = "streaming"
    /\ Len(sends[s].received) < MaxChunks
    /\ LET c == ChunkText(Len(sends[s].received) + 1)
           modelResponse == Accumulate(sends[s].modelResponse, c)
       IN  /\ messages' = ChunkUpdate(messages, s, modelResponse)
           /\ sends' = [sends EXCEPT ![s].modelResponse = modelResponse,
                                     ![s].received = Append(@, c)]
    /\ UNCHANGED <<download, chat, input, isLoading, error, currentModel, isDeepSearch,
                   attachedFile, welcomeAnimationIntervalRef, timers, selections>>

\* the stream throws while it is iterated
ChunkFail(s) ==
    /\ sends[s].pc = "streaming"
    /\ Fail(s)

\* the stream completes: handleStandardChat returns, finally runs
StreamEnd(s) ==
    /\ sends[s].pc = "streaming"
    /\ Finally
    /\ sends' = Settle(s, "done")
    /\ UNCHANGED <<download, chat, messages, input, error, currentModel,
                   welcomeAnimationIntervalRef, timers, selections>>

----------------------------------------------------------------------------
(* handleDeepSearch *)

\* what reading a field that is absent, or present and empty, gives: falsy
Missing == ""

\* what `chunk.web` gives for a grounding chunk that has no `web`
Undefined == [undefined |-> TRUE]

\* what generateContent resolves to: text, and candidates[0]'s grounding
\* chunks; the field is absent when any link of the optional chain is missing
DeepResponses ==
    { [text |-> <<"r">>,
       groundingChunks |-> << [web |-> [uri |-> "u1", title |-> "t1"]],
                              [web |-> [uri |-> Missing, title |-> "t2"]],
                              [retrievedContext |-> "c"] >>] }

\* r[f], or what JavaScript reads from an absent field
Field(r, f) == IF f \in DOMAIN r THEN r[f] ELSE Missing

\* chunks.map(chunk => chunk.web)
RECURSIVE MapWeb(_)
MapWeb(chunks) ==
    IF chunks = <<>> THEN <<>>
    ELSE <<IF "web" \in DOMAIN Head(chunks) THEN Head(chunks).web ELSE Undefined>>
            \o MapWeb(Tail(chunks))

\* a filter that asks for the uri only
HasUriAndTitle_UriOnly(web) == Field(web, "uri") # Missing

\* !!web?.uri && !!web?.title
HasUriAndTitle(web) == Field(web, "uri") # Missing /\ Field(web, "title") # Missing

\* chunks?.map(chunk => chunk.web).filter(...) ?? []
Citations(response) ==
    IF "groundingChunks" \in DOMAIN response
    THEN SelectSeq(MapWeb(response.groundingChunks), HasUriAndTitle)
    ELSE <<>>

\* the transcript after the grounded call returned
DeepUpdate(prev, s, response) ==
    SetLast(prev, [role |-> "model", text |-> response.text,
                   citations |-> Citations(response),
                   turn |-> s])

\* ai.models.generateContent resolves: final update, finally
DeepDone(s, response) ==
    /\ sends[s].pc = "deep"
    /\ messages' = DeepUpdate(messages, s, response)
    /\ Finally
    /\ sends' = Settle(s, "done")
    /\ UNCHANGED <<download, chat, input, error, currentModel,
                   welcomeAnimationIntervalRef, timers, selections>>

\* ai.models.generateContent rejects
DeepFail(s) ==
    /\ sends[s].pc = "deep"
    /\ Fail(s)

----------------------------------------------------------------------------
(* The requests to the external API *)

\* the argument of ai.models.generateContent
GroundedRequest(s) ==
    [api |-> "generateContent", model |-> "gemini-2.5-flash",
     contents |-> sends[s].currentInput, tools |-> {"googleSearch"}]

\* messageParts of handleStandardChat
MessageParts(s) ==
    IF sends[s].attachedFile # Null
    THEN <<[inlineData |-> sends[s].attachedFile], [text |-> sends[s].currentInput]>>
    ELSE <<[text |-> sends[s].currentInput]>>

\* the call chat.sendMessageStream({ message: messageParts }) on the session
\* the closure holds
StreamRequest(s) ==
    [api |-> "sendMessageStream", session |-> sends[s].chat,
     message |-> MessageParts(s)]

\* the request of send s that has been issued and has not ended
Requests(s) ==
    CASE sends[s].pc = "deep" -> {GroundedRequest(s)}
      [] sends[s].pc \in {"open", "streaming"} -> {StreamRequest(s)}
      [] OTHER -> {}

----------------------------------------------------------------------------
(* The steps of the component.  handleDownloadChat reads the transcript    *)
(* and writes no state of the component: it is explored in ExportSpec.     *)

Next ==
    \/ Mount
    \/ \E key \in AI_MODELS : SelectPersona(key)
    \/ \E t \in timers : Tick(t)
    \/ \E v \in Inputs : SetInput(v)
    \/ \E f \in Files : AttachFile(f)
    \/ RemoveFile
    \/ ToggleDeepSearch
    \/ \E s \in SendIds : Submit(s)
    \/ \E s \in SendIds : FileRead(s)
    \/ \E s \in SendIds : FileReadError(s)
    \/ \E s \in SendIds : StreamOpen(s)
    \/ \E s \in SendIds : StreamOpenFail(s)
    \/ \E s \in SendIds : Chunk(s)
    \/ \E s \in SendIds : ChunkFail(s)
    \/ \E s \in SendIds : StreamEnd(s)
    \/ \E s \in SendIds, response \in DeepResponses : DeepDone(s, response)
    \/ \E s \in SendIds : DeepFail(s)

Spec == Init /\ [][Next]_vars

----------------------------------------------------------------------------
(* The final update of handleDeepSearch, over every shape of response *)

\* the grounding chunks a response may carry: a full `web`, a `web` with an
\* empty uri, a `web` without title, and a chunk without `web`
GroundingChunks ==
    { [web |-> [uri |-> "u1", title |-> "t1"]],
      [web |-> [uri |-> "u2", title |-> "t2"]],
      [web |-> [uri |-> Missing, title |-> "t1"]],
      [web |-> [uri |-> "u1"]],
      [retrievedContext |-> "c"] }

\* the responses of the grounded call: without grounding chunks, or with up
\* to MaxGrounding of them
GroundedResponses ==
    {[text |-> <<"r">>]} \cup
    {[text |-> <<"r">>, groundingChunks |-> chunks] :
        chunks \in UNION {[1..n -> GroundingChunks] : n \in 0..MaxGrounding}}

\* send 1 is a deep search of "q" accepted after the welcome animation; the
\* grounded call has resolved with `response`, which the send still holds
DeepSearchResolved(response) ==
    /\ chat = startChat("ecoiuris", 1)
    /\ messages = <<Message("model", fullWelcomeMessageText, 0),
                    Message("user", <<"q">>, 1),
                    Message("model", DeepPlaceholder, 1)>>
    /\ input = <<>>
    /\ isLoading = TRUE
    /\ error = Null
    /\ currentModel = "ecoiuris"
    /\ isDeepSearch = TRUE
    /\ attachedFile = Null
    /\ welcomeAnimationIntervalRef = 1
    /\ timers = {}
    /\ sends = [s \in SendIds |->
                  IF s = 1
                  THEN [pc |-> "deep", currentInput |-> <<"q">>,
                        attachedFile |-> Null, isDeepSearch |-> TRUE,
                        chat |-> startChat("ecoiuris", 1), modelResponse |-> <<>>,
                        received |-> <<>>, duringAnimation |-> FALSE,
                        response |-> response]
                  ELSE IdleSend]
    /\ selections = 1
    /\ download = <<>>

CitationsInit == \E response \in GroundedResponses : DeepSearchResolved(response)

\* lines 186-196 and the finally block, on the response the send holds
ApplyResponse ==
    /\ sends[1].pc = "deep"
    /\ messages' = DeepUpdate(messages, 1, sends[1].response)
    /\ Finally
    /\ sends' = [sends EXCEPT ![1].pc = "done"]
    /\ UNCHANGED <<download, chat, input, error, currentModel,
                   welcomeAnimationIntervalRef, timers, selections>>

CitationsNext == ApplyResponse

CitationsSpec == CitationsInit /\ [][CitationsNext]_vars

----------------------------------------------------------------------------
(* handleDownloadChat *)

\* the tags a text may hold; the text content of the parsed text has none
Markup == {"<pre>", "</pre>"}

\* the character an entity stands for in the text content
Decode(t) == IF t = "&lt;" THEN "<" ELSE t

\* tempDiv.innerHTML = msg.text; tempDiv.textContent
RECURSIVE PlainText(_)
PlainText(text) ==
    IF text = <<>> THEN <<>>
    ELSE (IF Head(text) \in Markup THEN <<>> ELSE <<Decode(Head(text))>>)
            \o PlainText(Tail(text))

\* Array.prototype.join
RECURSIVE Join(_, _)
Join(parts, sep) ==
    IF parts = <<>> THEN <<>>
    ELSE IF Len(parts) = 1 THEN parts[1]
    ELSE parts[1] \o <<sep>> \o Join(Tail(parts), sep)

Prefix(msg) == IF msg.role = "user" THEN "> User:" ELSE "< AI:"

\* `[${i+1}] ${c.title}: ${c.uri}`, i counted from 0
CitationLine(c, i) == <<"[", ToString(i + 1), "] ", c.title, ": ", c.uri>>

\* a block that is written for an empty list of citations too
CitationsText_EmptyListToo(msg) ==
    IF "citations" \in DOMAIN msg
    THEN <<"\n\nSources:\n">>
            \o Join([i \in 1..Len(msg.citations) |->
                        CitationLine(msg.citations[i], i - 1)], "\n")
    ELSE <<>>

\* citationsText of an entry
CitationsText(msg) ==
    IF "citations" \in DOMAIN msg /\ Len(msg.citations) > 0
    THEN <<"\n\nSources:\n">>
            \o Join([i \in 1..Len(msg.citations) |->
                        CitationLine(msg.citations[i], i - 1)], "\n")
    ELSE <<>>

\* `${prefix}\n${plainText}${citationsText}`
Rendering(msg) == <<Prefix(msg), "\n">> \o PlainText(msg.text) \o CitationsText(msg)

\* messages.map(...).join('\n\n---\n\n')
ChatHistory(msgs) ==
    Join([i \in 1..Len(msgs) |-> Rendering(msgs[i])], "\n\n---\n\n")

\* the header's download button: the Blob handed to the browser
DownloadChat ==
    /\ Mounted
    /\ download' = ChatHistory(messages)
    /\ UNCHANGED <<chat, messages, input, isLoading, error, currentModel,
                   isDeepSearch, attachedFile, welcomeAnimationIntervalRef,
                   timers, sends, selections>>

\* the entries a transcript may hold: a welcome text with its markup, user
\* entries (plain, with a file annotation, with an entity), a streamed model
\* entry, and deep-search entries with no, one and two citations
ExportEntries ==
    { Message("model", <<"<pre>", "w1", "</pre>">>, 0),
      Message("user", <<"q">>, 1),
      Message("user", UserText(<<"q">>, "f.pdf"), 1),
      Message("user", <<"&lt;", "q">>, 1),
      Message("model", <<"c1">>, 1),
      [role |-> "model", text |-> <<"r">>, citations |-> <<>>, turn |-> 1],
      [role |-> "model", text |-> <<"r">>,
       citations |-> <<[uri |-> "u1", title |-> "t1"]>>, turn |-> 1],
      [role |-> "model", text |-> <<"r">>,
       citations |-> <<[uri |-> "u1", title |-> "t1"],
                       [uri |-> "u2", title |-> "t2"]>>, turn |-> 1] }

\* the component at rest with a transcript of up to MaxEntries entries
ExportInit ==
    /\ chat = startChat("ecoiuris", 1)
    /\ messages \in UNION {[1..n -> ExportEntries] : n \in 1..MaxEntries}
    /\ input = <<>>
    /\ isLoading = FALSE
    /\ error = Null
    /\ currentModel = "ecoiuris"
    /\ isDeepSearch = FALSE
    /\ attachedFile = Null
    /\ welcomeAnimationIntervalRef = 1
    /\ timers = {}
    /\ sends = [s \in SendIds |-> IdleSend]
    /\ selections = 1
    /\ download = <<>>

ExportNext == DownloadChat

ExportSpec == ExportInit /\ [][ExportNext]_vars

----------------------------------------------------------------------------
(* Properties *)

Last(seq) == seq[Len(seq)]

\* c1 + ... + cn
RECURSIVE Concat(_)
Concat(chunks) ==
    IF chunks = <<>> THEN <<>> ELSE Head(chunks) \o Concat(Tail(chunks))

\* send s takes a step
Steps(s) == sends'[s] # sends[s]

\* send s ends in a failure in this step
Fails(s) == sends[s].pc \in Running /\ sends'[s].pc = "failed"

\* the entries of the transcript `msgs` written by send s with the given role
EntriesOf(msgs, s, role) ==
    {i \in 1..Len(msgs) : msgs[i].turn = s /\ msgs[i].role = role}

\* C1: whenever an accepted send fails, at whatever await, the transcript
\* after the catch block ends with the user entry of that send and holds no
\* model entry of that send.
C1_FailedSendKeepsUserEntry ==
    [][\A s \in SendIds :
          Fails(s) =>
              /\ messages' # <<>>
              /\ Last(messages').role = "user"
              /\ Last(messages').turn = s
              /\ EntriesOf(messages', s, "model") = {}]_vars

\* C2: a send whose session is no longer the active one never changes the
\* transcript: its placeholder, its updates and its rollback are discarded.
C2_StaleSendDiscarded ==
    [][\A s \in SendIds :
          (sends[s].pc \in Running /\ sends[s].chat # chat /\ Steps(s))
              => messages' = messages]_vars

\* C3: no tick of the welcome animation rewrites a transcript that holds an
\* entry of a send.
C3_AnimationNeverOverlapsSend ==
    [][(\E t \in timers : Tick(t))
          => \A i \in 1..Len(messages) : messages[i].turn = 0]_vars

\* a model entry written by a send that has not ended: its placeholder or the
\* text streamed so far
Provisional(e) ==
    /\ e.role = "model"
    /\ e.turn # 0
    /\ sends[e.turn].pc \in Running

LastIsProvisional == messages # <<>> /\ Provisional(Last(messages))

StandardInFlight ==
    isLoading /\ \E s \in SendIds : sends[s].pc \in Running /\ ~sends[s].isDeepSearch

Undisturbed(s) ==
    /\ sends[s].chat = chat
    /\ ~sends[s].duringAnimation

\* what the last entry is while the undisturbed send s is at `pc`
ExpectedLast(s) ==
    CASE sends[s].pc \in {"file", "open", "hung"} ->
            Message("user", UserText(sends[s].currentInput, sends[s].attachedFile), s)
      [] sends[s].pc = "streaming" ->
            Message("model", IF sends[s].received = <<>> THEN Placeholder
                             ELSE Concat(sends[s].received), s)
      [] sends[s].pc = "deep" -> Message("model", DeepPlaceholder, s)

ApiCalls == {s \in SendIds : sends[s].pc \in {"open", "streaming", "deep"}}

\* C5: at most one request to the external API is in flight, at most one send
\* is between its acceptance and its finally block, and isLoading is true for
\* as long as it is.
C5_AtMostOneRequestInFlight ==
    /\ Cardinality(ApiCalls) <= 1
    /\ Cardinality({s \in SendIds : sends[s].pc \in Running}) <= 1
    /\ (\E s \in SendIds : sends[s].pc \in Running) => isLoading

\* C5 witness: a request is in flight and a submit that only the isLoading
\* test rejects is at hand
C5_Witness ==
    /\ ApiCalls # {}
    /\ isLoading
    /\ \E s \in SendIds : sends[s].pc = "idle"
    /\ Accepted(input, attachedFile, FALSE, chat)

\* C6: once a session exists, it was created from the instruction of the
\* active persona.
C6_SessionBoundToActivePersona ==
    chat # NoChat => chat.instruction = currentModel

\* the latest run of the persona effect threw
LastCreationThrew == Mounted /\ chat.id # selections

\* C7: after session creation throws, the initialization error stays set and
\* no submit is accepted until a later selection creates a session.
C7_FailedCreationDisablesChat ==
    LastCreationThrew =>
        /\ error = InitError
        /\ \A v \in Inputs, f \in Files \cup {Null} :
              ~Accepted(v, f, isLoading, chat)

\* the welcome entry once its animation has completed
WelcomeEntry == Message("model", fullWelcomeMessageText, 0)

\* timer t runs its last tick in this step: no character is left
Completes(t) == Tick(t) /\ t.i >= Len(fullWelcomeMessageText)

\* C8: the tick that completes an animation leaves the welcome entry alone in
\* the transcript, with the full text and no cursor; and every live timer was
\* started by the latest run of the persona effect, so at most one is live
\* and none of an earlier persona ticks after a switch.
C8_WelcomeVerbatimNoStaleTimer ==
    /\ [](\A t \in timers : t.id = selections /\ t.id = welcomeAnimationIntervalRef)
    /\ [](Cardinality(timers) <= 1)
    /\ [][\A t \in timers : Completes(t) => messages' = <<WelcomeEntry>>]_vars

\* C8 witness: after a switch, the animation of the new session has completed
C8_Witness ==
    /\ selections >= 2
    /\ chat.id = selections
    /\ timers = {}
    /\ messages = <<WelcomeEntry>>

\* send s completes its stream in this step
Completed(s) == sends[s].pc = "streaming" /\ sends'[s].pc = "done"

\* C9: when a standard-chat send completes, the text of its model entry is
\* the concatenation of the chunks received, in arrival order (empty for a
\* stream of no chunks).
C9_FinalTextIsConcatenation ==
    [][\A s \in SendIds :
          Completed(s) =>
              \A i \in EntriesOf(messages', s, "model") :
                  messages'[i].text = Concat(sends[s].received)]_vars

\* the sends accepted so far
AcceptedSends == {s \in SendIds : sends[s].pc # "idle"}

\* every send so far was accepted in the current session after its animation
\* had completed and has completed, and no persona was selected since
OnlyCompletedSends ==
    /\ Mounted
    /\ chat.id = selections
    /\ timers = {}
    /\ \A s \in AcceptedSends :
          /\ sends[s].pc = "done"
          /\ sends[s].chat = chat
          /\ ~sends[s].duringAnimation

\* C10: after a sequence of completed sends in one session, the transcript is
\* the welcome entry followed by one user entry and one model entry per send,
\* in the order of the sends.
C10_WelcomeThenAlternatingPairs ==
    OnlyCompletedSends =>
        /\ Len(messages) = 1 + 2 * Cardinality(AcceptedSends)
        /\ messages[1] = WelcomeEntry
        /\ \A s \in AcceptedSends :
              /\ messages[2 * s].role = "user" /\ messages[2 * s].turn = s
              /\ messages[2 * s + 1].role = "model" /\ messages[2 * s + 1].turn = s

\* C10 witness: two standard-chat sends have completed in one session
C10_Witness ==
    /\ OnlyCompletedSends
    /\ Cardinality(AcceptedSends) = 2
    /\ \A s \in AcceptedSends : "citations" \notin DOMAIN messages[2 * s + 1]

\* send s ends in this step, with either outcome
Finishes(s) == sends[s].pc \in Running /\ sends'[s].pc \in {"done", "failed"}

\* C11: the step in which an accepted send finishes, with either outcome and
\* on either path, leaves isLoading false, no pending attachment and the
\* deep-search toggle off; and when the send failed, a non-empty error.
C11_FinishedSendResetsForm ==
    [][\A s \in SendIds :
          Finishes(s) =>
              /\ isLoading' = FALSE
              /\ attachedFile' = Null
              /\ isDeepSearch' = FALSE
              /\ Fails(s) => (error' # Null /\ error' # "")]_vars

\* C11 witness: a deep search has succeeded and a later send that carried an
\* attachment has failed; the form is reset and the error is set
C11_Witness ==
    /\ \E s, r \in SendIds :
          /\ sends[s].pc = "done"
          /\ \E i \in EntriesOf(messages, s, "model") : "citations" \in DOMAIN messages[i]
          /\ sends[r].pc = "failed"
          /\ \E i \in EntriesOf(messages, r, "user") :
                \E v \in Inputs : messages[i].text = UserText(v, "f.pdf")
    /\ ~isLoading
    /\ attachedFile = Null
    /\ ~isDeepSearch
    /\ error = SendError

\* the user entry of the in-flight send s
UserEntry(s) ==
    Message("user", UserText(sends[s].currentInput, sends[s].attachedFile), s)

\* send s fails in this step after its provisional entry was appended: while
\* its stream is iterated, or at the grounded call
FailsAfterPlaceholder(s) == sends[s].pc \in {"streaming", "deep"} /\ Fails(s)

\* C12: the provisional entry of a send is appended as one entry after its
\* user entry and then only replaced in place; and the failure of an
\* undisturbed send after that drops exactly that entry, so the transcript is
\* again what it was before the entry was appended and ends with the user
\* entry of the send.
C12_FailureAfterPlaceholderRestoresTranscript ==
    [][\A s \in SendIds :
          /\ (sends[s].pc = "idle" /\ sends'[s].pc = "deep")
                => messages' = messages \o <<Message("user", UserText(input, attachedFile), s),
                                              Message("model", DeepPlaceholder, s)>>
          /\ (sends[s].pc = "open" /\ sends'[s].pc = "streaming")
                => messages' = Append(messages, Message("model", Placeholder, s))
          /\ (sends[s].pc = "streaming" /\ sends'[s].pc = "streaming" /\ Steps(s))
                => /\ Len(messages') = Len(messages)
                   /\ SubSeq(messages', 1, Len(messages) - 1)
                         = SubSeq(messages, 1, Len(messages) - 1)
          /\ (FailsAfterPlaceholder(s) /\ Undisturbed(s))
                => /\ Last(messages).role = "model" /\ Last(messages).turn = s
                   /\ Len(messages') = Len(messages) - 1
                   /\ messages' = SubSeq(messages, 1, Len(messages) - 1)
                   /\ Last(messages') = UserEntry(s)]_vars

\* C12 witness: an undisturbed send has failed and the transcript ends with
\* its user entry, which only a failure after the placeholder leaves there
C12_Witness ==
    \E s \in SendIds :
        /\ sends[s].pc = "failed"
        /\ Undisturbed(s)
        /\ Last(messages).role = "user"
        /\ Last(messages).turn = s
        /\ EntriesOf(messages, s, "model") = {}

\* a send is between its acceptance and its end
InFlight == \E r \in SendIds : sends[r].pc \in Running

\* the preconditions of a send: text left after trimming or a pending
\* attachment, no send in flight, and a session
Preconditions ==
    /\ (\E i \in 1..Len(input) : input[i] # " ") \/ attachedFile # Null
    /\ ~InFlight
    /\ chat # NoChat

\* C13: the submit handler accepts exactly when the preconditions hold; a send
\* starts only in a state where they hold; and a submit in a state where they
\* do not hold changes neither the transcript, the input, the attachment, the
\* deep-search toggle, isLoading nor the error, and issues no request. So a
\* submit of an attachment with empty or blank text is accepted.
C13_SubmitAcceptedIffPreconditions ==
    /\ [](Accepted(input, attachedFile, isLoading, chat) <=> Preconditions)
    /\ [][\A s \in SendIds :
             (sends[s].pc = "idle" /\ sends'[s].pc # "idle") => Preconditions]_vars
    /\ [][\A s \in SendIds :
             (Submit(s) /\ ~Preconditions)
                => /\ UNCHANGED <<messages, input, attachedFile, isDeepSearch,
                                  isLoading, error>>
                   /\ ApiCalls' = ApiCalls]_vars

\* C13 witness: a submit of an attachment with blank text was accepted
C13_Witness ==
    \E s \in SendIds :
        /\ sends[s].pc \in Running
        /\ sends[s].currentInput = <<" ">>
        /\ sends[s].attachedFile # Null
        /\ isLoading
        /\ UserEntry(s) = Message("user", <<" ", "\n\n[File Attached: ", "f.pdf", "]">>, s)
        /\ \E i \in 1..Len(messages) : messages[i] = UserEntry(s)

\* a grounding chunk whose web.uri and web.title are both present and non-empty
WellFormed(chunk) ==
    /\ "web" \in DOMAIN chunk
    /\ "uri" \in DOMAIN chunk.web /\ chunk.web.uri # ""
    /\ "title" \in DOMAIN chunk.web /\ chunk.web.title # ""

\* the positions of the well-formed chunks
Kept(chunks) == {i \in 1..Len(chunks) : WellFormed(chunks[i])}

\* the j-th of them, in the order of the response
KeptAt(chunks, j) ==
    CHOOSE i \in Kept(chunks) : Cardinality({k \in Kept(chunks) : k <= i}) = j

\* the response held by send 1 and the citations of the entry written from it
ResponseChunks ==
    IF "groundingChunks" \in DOMAIN sends[1].response
    THEN sends[1].response.groundingChunks ELSE <<>>

\* C14: the citations on the final entry of a successful deep search are the
\* `web` of exactly the grounding chunks whose uri and title are both present
\* and non-empty, in the order of the response; the other chunks are dropped,
\* and a response without grounding chunks gives the empty list.
C14_CitationsAreWellFormedChunksInOrder ==
    sends[1].pc = "done" =>
        LET cited == Last(messages).citations
        IN  /\ Last(messages).role = "model"
            /\ Len(cited) = Cardinality(Kept(ResponseChunks))
            /\ \A j \in 1..Len(cited) :
                  cited[j] = ResponseChunks[KeptAt(ResponseChunks, j)].web
            /\ ResponseChunks = <<>> => cited = <<>>

\* C14 witness: of three chunks, the second without title, the first and the
\* third are cited in that order
C14_Witness ==
    /\ sends[1].pc = "done"
    /\ ResponseChunks = << [web |-> [uri |-> "u2", title |-> "t2"]],
                           [web |-> [uri |-> "u1"]],
                           [web |-> [uri |-> "u1", title |-> "t1"]] >>
    /\ Last(messages).citations = << [uri |-> "u2", title |-> "t2"],
                                     [uri |-> "u1", title |-> "t1"] >>

\* an external call of send s is outstanding: the file read, the opening of
\* the stream, the next chunk, or the grounded call
PendingCall(s) == sends[s].pc \in {"file", "open", "streaming", "deep"}

\* C15: while the send gate is closed by isLoading, a send is waiting for an
\* external call, whose return or throw ends the send or moves it on; so no
\* outcome of a call leaves the gate closed with nothing left to reopen it.
C15_ClosedGateAwaitsCall ==
    isLoading => \E s \in SendIds : PendingCall(s)

\* C17: the step in which the read of the attachment ends in an error ends the
\* send as a failure: error set, isLoading false, attachment cleared.
C17_FileReadFailureIsSendFailure ==
    [][\A s \in SendIds :
          FileReadError(s) =>
              /\ sends'[s].pc = "failed"
              /\ error' # Null
              /\ isLoading' = FALSE
              /\ attachedFile' = Null]_vars

\* the entry has a non-empty list of citations
HasCitations(m) == "citations" \in DOMAIN m /\ m.citations # <<>>

\* the length of the Sources block of an entry: the header, six pieces per
\* line, and a line break between lines
BlockLen(m) == IF HasCitations(m) THEN 7 * Len(m.citations) ELSE 0

\* the length of the rendering of an entry: prefix, line break, text, block
RenderingLen(m) == 2 + Len(PlainText(m.text)) + BlockLen(m)

\* where the rendering of entry i starts in the export of `msgs`
RECURSIVE Start(_, _)
Start(msgs, i) ==
    IF i = 1 THEN 1
    ELSE Start(msgs, i - 1) + RenderingLen(msgs[i - 1]) + 1

\* C16: the export holds one rendering per entry, in transcript order, with
\* the separator between consecutive renderings and nothing else; a rendering
\* starts with "> User:" for a user entry and "< AI:" for a model entry, then
\* the text; and the text is followed by a Sources block, with one numbered
\* line "[j] title: uri" per citation in order, exactly when the entry has a
\* non-empty list of citations.
C16_ExportIsPrefixedEntriesJoined ==
    download # <<>> =>
        LET n == Len(messages)
        IN  /\ Len(download) = Start(messages, n) + RenderingLen(messages[n]) - 1
            /\ \A i \in 1..n :
                  LET m == messages[i]
                      a == Start(messages, i)
                      b == a + 2 + Len(PlainText(m.text))
                  IN  /\ i > 1 => download[a - 1] = "\n\n---\n\n"
                      /\ download[a] = (IF m.role = "user" THEN "> User:" ELSE "< AI:")
                      /\ download[a + 1] = "\n"
                      /\ SubSeq(download, a + 2, b - 1) = PlainText(m.text)
                      /\ HasCitations(m) =>
                            /\ download[b] = "\n\nSources:\n"
                            /\ \A j \in 1..Len(m.citations) :
                                  /\ SubSeq(download, b + 7 * j - 6, b + 7 * j - 1)
                                        = <<"[", ToString(j), "] ",
                                            m.citations[j].title, ": ",
                                            m.citations[j].uri>>
                                  /\ j > 1 => download[b + 7 * j - 7] = "\n"
                      /\ ~HasCitations(m) =>
                            (b <= Len(download) => download[b] = "\n\n---\n\n")

\* C16 witness: the export of a user entry followed by an entry with two
\* citations
C16_Witness ==
    /\ Len(messages) = 2
    /\ messages[1].role = "user"
    /\ HasCitations(messages[2]) /\ Len(messages[2].citations) = 2
    /\ download = <<"> User:", "\n", "q", "\n\n---\n\n",
                    "< AI:", "\n", "r", "\n\nSources:\n",
                    "[", "1", "] ", "t1", ": ", "u1", "\n",
                    "[", "2", "] ", "t2", ": ", "u2">>

\* send s writes `messages[last] = model entry` in this step: an update of
\* the for-await loop, or the final update of the deep search
WritesLast(s) ==
    \/ Chunk(s)
    \/ \E response \in DeepResponses : DeepDone(s, response)

\* C18: every write to the last entry, in every interleaving, finds a model
\* entry there; the write keeps the length of the transcript and leaves every
\* user entry as it was.
C18_WritesHitModelEntries ==
    [][\A s \in SendIds :
          WritesLast(s) =>
              /\ messages # <<>>
              /\ Last(messages).role = "model"
              /\ Len(messages') = Len(messages)
              /\ \A i \in 1..Len(messages) :
                    messages[i].role = "user" => messages'[i] = messages[i]]_vars

\* C18 witness: a persona was selected while send s streamed, and its next
\* chunk was written over the welcome entry of the new session
C18_Witness ==
    \E s \in SendIds :
        /\ sends[s].pc = "streaming"
        /\ sends[s].chat # chat
        /\ sends[s].received # <<>>
        /\ messages = <<Message("model", sends[s].modelResponse, s)>>

\* p is a prefix of q
IsPrefix(p, q) == Len(p) <= Len(q) /\ SubSeq(q, 1, Len(p)) = p

\* the undisturbed standard-chat send s receives a chunk in this step
ReceivesChunk(s) ==
    /\ sends[s].pc = "streaming"
    /\ Undisturbed(s)
    /\ Len(sends'[s].received) = Len(sends[s].received) + 1

\* C19: the update for the k-th chunk of an undisturbed standard-chat send
\* leaves, as the text of its provisional entry, the concatenation of the
\* chunks 1..k; and from the second chunk on, the text before the update is a
\* prefix of the text after it.
C19_KthUpdateIsConcatenationOfKChunks ==
    [][\A s \in SendIds :
          ReceivesChunk(s) =>
              LET k == Len(sends'[s].received)
              IN  /\ Last(messages').role = "model" /\ Last(messages').turn = s
                  /\ Last(messages').text = Concat(SubSeq(sends'[s].received, 1, k))
                  /\ SubSeq(sends'[s].received, 1, k - 1) = sends[s].received
                  /\ k >= 2 => /\ IsPrefix(Last(messages).text, Last(messages').text)
                               /\ Last(messages).text = Concat(sends[s].received)]_vars

\* C19 witness: after the second chunk the provisional entry holds both
C19_Witness ==
    \E s \in SendIds :
        /\ sends[s].pc = "streaming"
        /\ Undisturbed(s)
        /\ sends[s].received = <<ChunkText(1), ChunkText(2)>>
        /\ Last(messages) = Message("model", ChunkText(1) \o ChunkText(2), s)

\* send s was accepted with the deep-search toggle on and has not ended
DeepInFlight(s) == sends[s].pc \in Running /\ sends[s].isDeepSearch

\* C20: a deep-search send waits for the grounded call alone: it reads no
\* file and calls no session. Its one request holds the captured input text
\* and nothing of the attachment, also when the text is empty; the session is
\* left as it is; the user entry names the attached file all the same; and
\* the step that ends the send clears the attachment.
C20_DeepSearchSendsTextOnly ==
    /\ [](\A s \in SendIds :
             DeepInFlight(s) =>
                 /\ sends[s].pc = "deep"
                 /\ Cardinality(Requests(s)) = 1
                 /\ \A r \in Requests(s) :
                       /\ r.api = "generateContent"
                       /\ r.contents = sends[s].currentInput
                       /\ DOMAIN r = {"api", "model", "contents", "tools"}
                 /\ (sends[s].attachedFile # Null /\ Undisturbed(s))
                       => /\ messages[Len(messages) - 1].role = "user"
                          /\ messages[Len(messages) - 1].text =
                                sends[s].currentInput
                                   \o <<"\n\n[File Attached: ", sends[s].attachedFile, "]">>)
    /\ [][\A s \in SendIds :
             (DeepInFlight(s) /\ Steps(s))
                 => /\ chat' = chat
                    /\ sends'[s].pc \in {"done", "failed"}
                    /\ attachedFile' = Null]_vars

\* C20 witness: a deep search of a file with no text is in flight; its
\* request holds the empty text
C20_Witness ==
    \E s \in SendIds :
        /\ sends[s].pc = "deep"
        /\ sends[s].attachedFile = "f.pdf"
        /\ attachedFile = "f.pdf"
        /\ sends[s].currentInput = <<>>
        /\ Requests(s) = {[api |-> "generateContent", model |-> "gemini-2.5-flash",
                           contents |-> <<>>, tools |-> {"googleSearch"}]}
        /\ messages[Len(messages) - 1] =
              Message("user", <<"\n\n[File Attached: ", "f.pdf", "]">>, s)

====
